---- MODULE Spec2Model ----
(***************************************************************************)
(* Model of package bitcoin (mineselskabet/go-bitcoin): the Amount type,   *)
(* Parse, split, SplitString, Format, String and the text / JSON marshal   *)
(* adapters.                                                               *)
(*                                                                         *)
(* Amount is a Go int64.  TLC's integers are 32 bits wide, so an int64 is  *)
(* kept as a sign and a big-endian sequence of decimal digits, and the     *)
(* operators I64Add .. I64Rem below are Go's + - * / % on int64, wrapping  *)
(* modulo 2^64 as Go's do.  Go strings are TLA+ strings.                   *)
(***************************************************************************)
EXTENDS Integers, Sequences, FiniteSets, TLC

(***************************************************************************)
(* Natural numbers as big-endian digit sequences; <<0>> is zero and no     *)
(* other number starts with a 0.                                           *)
(***************************************************************************)
\* d without its leading zeros.
NStrip(d) ==
    IF \A i \in 1..Len(d) : d[i] = 0 THEN <<0>>
    ELSE LET first == CHOOSE i \in 1..Len(d) :
                          d[i] # 0 /\ \A j \in 1..(i - 1) : d[j] = 0
         IN  SubSeq(d, first, Len(d))

\* Digit i of x written with n digits (leading zeros added).
NDigit(x, i, n) == IF i <= n - Len(x) THEN 0 ELSE x[i - (n - Len(x))]

NLess(x, y) ==
    \/ Len(x) < Len(y)
    \/ /\ Len(x) = Len(y)
       /\ \E i \in 1..Len(x) : x[i] < y[i] /\ \A j \in 1..(i - 1) : x[j] = y[j]

NLessEq(x, y) == x = y \/ NLess(x, y)

\* The digits of the column values s, each plus the carry into it: the carry
\* comes from the nearest column to the right that overflows, through columns
\* that hold 9.
NCarry(s, n) ==
    NStrip(SubSeq([i \in 1..n |->
        (s[i] + (IF \E j \in (i + 1)..n :
                        s[j] >= 10 /\ \A k \in (i + 1)..(j - 1) : s[k] = 9
                 THEN 1 ELSE 0)) % 10], 1, n))

NAddCols(x, y, n) ==
    NCarry(SubSeq([i \in 1..n |-> NDigit(x, i, n) + NDigit(y, i, n)], 1, n), n)

NAdd(x, y) ==
    IF Len(x) = 0 \/ Len(y) = 0 THEN <<0>>
    ELSE NAddCols(x, y, (IF Len(x) > Len(y) THEN Len(x) ELSE Len(y)) + 1)

\* The digits of the column differences s, each less the borrow out of it: the
\* borrow comes from the nearest column to the right that is negative,
\* through columns that hold 0.
NBorrow(s, n) ==
    NStrip(SubSeq([i \in 1..n |->
        (s[i] + 10 - (IF \E j \in (i + 1)..n :
                             s[j] < 0 /\ \A k \in (i + 1)..(j - 1) : s[k] = 0
                      THEN 1 ELSE 0)) % 10], 1, n))

\* x - y for x >= y.
NSub(x, y) ==
    IF Len(x) = 0 \/ Len(y) = 0 THEN <<0>>
    ELSE NBorrow(SubSeq([i \in 1..Len(x) |->
                            NDigit(x, i, Len(x)) - NDigit(y, i, Len(x))],
                        1, Len(x)),
                 Len(x))

\* x * d for a digit d: the units of the digit products, plus their tens one
\* column to the left.
NMulDigit(x, d) ==
    IF Len(x) = 0 THEN <<0>>
    ELSE NAdd([i \in 1..Len(x) |-> (x[i] * d) % 10],
              [i \in 1..(Len(x) + 1) |->
                  IF i > Len(x) THEN 0 ELSE (x[i] * d) \div 10])

\* x times the number written by digits lo..hi of y.  The range is halved
\* rather than walked digit by digit, which keeps TLC's evaluation shallow.
RECURSIVE NMulRange(_, _, _, _)
NMulRange(x, y, lo, hi) ==
    IF lo >= hi THEN NMulDigit(x, y[lo])
    ELSE NAdd(NMulRange(x, y, lo, (lo + hi) \div 2)
                  \o [i \in 1..(hi - (lo + hi) \div 2) |-> 0],
              NMulRange(x, y, (lo + hi) \div 2 + 1, hi))

\* Whether x is a power of ten.
NIsPow10(x) == Len(x) > 0 /\ x[1] = 1 /\ \A i \in 2..Len(x) : x[i] = 0

\* x * y; a power of ten appends its zeros.
NMul(x, y) ==
    IF Len(x) = 0 \/ Len(y) = 0 THEN <<0>>
    ELSE IF NIsPow10(y) THEN NStrip(x \o Tail(y))
    ELSE NMulRange(x, y, 1, Len(y))

\* How often y (> 0) goes into r, for r < 10 * y.
NCount(r, y) == Cardinality({c \in 1..9 : NLessEq(NMulDigit(y, c), r)})

NDivTake(q, r1, y, cnt) ==
    [q |-> NStrip(Append(q, cnt)), r |-> NSub(r1, NMulDigit(y, cnt))]

NDivDigit(q, r1, y) == NDivTake(q, r1, y, NCount(r1, y))

\* One step of long division: the quotient and remainder p of a number by y
\* extended by the digit d of the dividend.
NDivStep(p, d, y) == NDivDigit(p.q, NStrip(Append(p.r, d)), y)

\* Long division by y continued from p over digits lo..hi of x, the range
\* halved as in NMulRange.
RECURSIVE NDivRange(_, _, _, _, _)
NDivRange(p, x, lo, hi, y) ==
    IF Len(p.r) = 0 \/ lo > hi THEN p
    ELSE IF lo = hi THEN NDivStep(p, x[lo], y)
    ELSE NDivRange(NDivRange(p, x, lo, (lo + hi) \div 2, y),
                   x, (lo + hi) \div 2 + 1, hi, y)

\* Division of x by y > 0: quotient q and remainder r.  Dividing by 10^k cuts
\* off the last k digits; other divisors take long division.
NDivMod(x, y) ==
    IF Len(x) = 0 \/ Len(y) = 0 THEN [q |-> <<0>>, r |-> <<0>>]
    ELSE IF NIsPow10(y) THEN
        IF Len(x) < Len(y) THEN [q |-> <<0>>, r |-> x]
        ELSE [q |-> SubSeq(x, 1, Len(x) - Len(y) + 1),
              r |-> NStrip(<<0>> \o SubSeq(x, Len(x) - Len(y) + 2, Len(x)))]
    ELSE NDivRange([q |-> <<0>>, r |-> <<0>>], x, 1, Len(x), y)

(***************************************************************************)
(* Integers: a sign and a magnitude; zero is never negative.               *)
(***************************************************************************)
Z(neg, mag) == [neg |-> neg /\ mag # <<0>>, mag |-> mag]

Zero == Z(FALSE, <<0>>)

RECURSIVE NFromInt(_)
NFromInt(n) == IF n < 10 THEN <<n>> ELSE Append(NFromInt(n \div 10), n % 10)

\* A small integer literal of the source.
Lit(n) == IF n < 0 THEN Z(TRUE, NFromInt(-n)) ELSE Z(FALSE, NFromInt(n))

ZNeg(x) == Z(~x.neg, x.mag)

\* big + small where the signs differ and |big| >= |small|.
ZTake(big, small) == Z(big.neg, NSub(big.mag, small.mag))

ZAdd(x, y) ==
    IF x.neg = y.neg THEN Z(x.neg, NAdd(x.mag, y.mag))
    ELSE ZTake(IF NLess(x.mag, y.mag) THEN y ELSE x,
               IF NLess(x.mag, y.mag) THEN x ELSE y)

ZSub(x, y) == ZAdd(x, ZNeg(y))

ZMul(x, y) == Z(x.neg # y.neg, NMul(x.mag, y.mag))

ZLess(x, y) ==
    IF x.neg # y.neg THEN x.neg
    ELSE NLess(IF x.neg THEN y.mag ELSE x.mag, IF x.neg THEN x.mag ELSE y.mag)

(***************************************************************************)
(* Go's int64: the integers MinInt64 .. MaxInt64, arithmetic wrapping      *)
(* modulo 2^64.                                                            *)
(***************************************************************************)
MaxInt64 == Z(FALSE, <<9,2,2,3,3,7,2,0,3,6,8,5,4,7,7,5,8,0,7>>)

MinInt64 == Z(TRUE, <<9,2,2,3,3,7,2,0,3,6,8,5,4,7,7,5,8,0,8>>)

TwoTo64 == <<1,8,4,4,6,7,4,4,0,7,3,7,0,9,5,5,1,6,1,6>>

InInt64(x) == IF x.neg THEN ~NLess(MinInt64.mag, x.mag) ELSE ~NLess(MaxInt64.mag, x.mag)

\* The int64 whose unsigned reading is u < 2^64.
WrapSigned(u) ==
    IF NLess(MaxInt64.mag, u) THEN Z(TRUE, NSub(TwoTo64, u)) ELSE Z(FALSE, u)

\* The int64 congruent to an integer of sign neg whose magnitude leaves m
\* modulo 2^64.
WrapResidue(neg, m) ==
    WrapSigned(IF neg /\ m # <<0>> THEN NSub(TwoTo64, m) ELSE m)

\* The int64 that a Go operation whose exact result is x leaves: x modulo 2^64,
\* taken in MinInt64 .. MaxInt64.
Wrap64(x) ==
    IF InInt64(x) THEN x ELSE WrapResidue(x.neg, NDivMod(x.mag, TwoTo64).r)

I64Add(x, y) == Wrap64(ZAdd(x, y))

I64Sub(x, y) == Wrap64(ZSub(x, y))

I64Mul(x, y) == Wrap64(ZMul(x, y))

I64Neg(x) == Wrap64(ZNeg(x))

\* x / y and x % y for y # 0: the quotient is truncated toward zero and the
\* remainder has the sign of x (MinInt64 / -1 wraps to MinInt64).
I64Quo(x, y) == Wrap64(Z(x.neg # y.neg, NDivMod(x.mag, y.mag).q))

I64Rem(x, y) == Z(x.neg, NDivMod(x.mag, y.mag).r)

(***************************************************************************)
(* The Amount type and its unit constants.                                 *)
(***************************************************************************)
\* The constants are below 2^31, where TLC's own product is Go's.
Satoshi == Lit(1)

MicroBTC == Lit(100 * 1)

MilliBTC == Lit(1000 * (100 * 1))

BTC == Lit(1000 * (1000 * (100 * 1)))

AllBTC == I64Add(I64Mul(Lit(20999999), BTC), I64Mul(Lit(97690000), Satoshi))

Abs(a) == IF ZLess(a, Zero) THEN I64Neg(a) ELSE a

(***************************************************************************)
(* fmt.Sprintf for the verbs the package uses.                             *)
(***************************************************************************)
DigitChar == <<"0", "1", "2", "3", "4", "5", "6", "7", "8", "9">>

IsDigit(c) == \E d \in 0..9 : DigitChar[d + 1] = c

RECURSIVE DigitsStr(_)
DigitsStr(d) ==
    IF Len(d) = 0 THEN ""
    ELSE IF Len(d) = 1 THEN DigitChar[d[1] + 1]
    ELSE LET mid == Len(d) \div 2
         IN  DigitsStr(SubSeq(d, 1, mid)) \o DigitsStr(SubSeq(d, mid + 1, Len(d)))

Zeros(n) == SubSeq("00000000000000000000000000000000", 1, n)

\* Sprintf("%d", x)
SprintfD(x) == (IF x.neg THEN "-" ELSE "") \o DigitsStr(x.mag)

\* Sprintf("%0<width>d", x): zeros between the sign and the digits up to width
\* characters; "%00d" is "%d".
SprintfPadD(width, x) ==
    LET sign == IF x.neg THEN "-" ELSE ""
        digs == DigitsStr(x.mag)
    IN  sign \o Zeros(width - Len(sign) - Len(digs)) \o digs

(***************************************************************************)
(* Parse                                                                   *)
(***************************************************************************)
NoError == ""

ErrStrayPlus == "parse error, stray +"

ErrStrayMinus == "parse error, stray -"

ErrDecimalPoints == "parse error, too many decimal points"

ErrUnknown(r, in) == "parse error, unknown character: " \o r \o " of '" \o in \o "'"

\* runeVal: the digit a rune stands for.
runeVal(r) == Lit(CHOOSE d \in 0..9 : DigitChar[d + 1] = r)

\* The closure add of Parse, on the variables it captures.
addTo(st, value, add, mul) ==
    [st EXCEPT !.value = I64Add(value, add), !.mul = mul]

\* add without its decimals branch, every digit taken as a whole BTC digit: a
\* slip C5_ParseValue tells from add.
addWhole(st, v) == addTo(st, I64Mul(st.value, Lit(10)), I64Mul(v, BTC), st.mul)

\* add with a multiplier that stops at 1 instead of reaching 0: a slip
\* C11_ExtraDigitsIgnored tells from add.
addNoDecay(st, v) ==
    IF ~st.decimals
    THEN addTo(st, I64Mul(st.value, Lit(10)), I64Mul(v, BTC), st.mul)
    ELSE addTo(st, st.value, I64Mul(v, st.mul),
               IF st.mul = Lit(1) THEN st.mul ELSE I64Quo(st.mul, Lit(10)))

add(st, v) ==
    IF ~st.decimals
    THEN addTo(st, I64Mul(st.value, Lit(10)), I64Mul(v, BTC), st.mul)
    ELSE addTo(st, st.value, I64Mul(v, st.mul), I64Quo(st.mul, Lit(10)))

\* One turn of the loop of Parse: the rune r at byte offset pos of in.
ParseRune(st, in, pos, r) ==
    IF r = "+" THEN
        IF pos = 0 THEN st ELSE [st EXCEPT !.err = ErrStrayPlus]
    ELSE IF r = "-" THEN
        IF pos = 0 THEN [st EXCEPT !.negative = TRUE]
        ELSE [st EXCEPT !.err = ErrStrayMinus]
    ELSE IF IsDigit(r) THEN add(st, runeVal(r))
    ELSE IF r = "." \/ r = "," THEN
        IF st.decimals THEN [st EXCEPT !.err = ErrDecimalPoints]
        ELSE [st EXCEPT !.decimals = TRUE]
    ELSE [st EXCEPT !.err = ErrUnknown(r, in)]

\* The locals of Parse after the loop has run from st over the runes lo..hi
\* of in (the range halved as in NMulRange); a return inside the loop ends
\* the scan.  The inputs are ASCII, so a rune's byte offset is its index.
RECURSIVE ParseLoop(_, _, _, _)
ParseLoop(st, in, lo, hi) ==
    IF st.err # NoError \/ lo > hi THEN st
    ELSE IF lo = hi THEN ParseRune(st, in, lo - 1, SubSeq(in, lo, lo))
    ELSE LET mid == (lo + hi) \div 2
         IN  ParseLoop(ParseLoop(st, in, lo, mid), in, mid + 1, hi)

ParseScan(in) ==
    ParseLoop([value |-> I64Mul(Lit(0), Satoshi), decimals |-> FALSE,
               negative |-> FALSE, mul |-> I64Mul(Lit(100), MilliBTC),
               err |-> NoError],
              in, 1, Len(in))

\* Parse returning the value accumulated so far along with an error: a slip
\* C6_ParseErrors tells from ParseReturn.
ParseReturnValue(st) ==
    IF st.err # NoError THEN [amount |-> st.value, err |-> st.err]
    ELSE IF st.negative THEN [amount |-> I64Neg(st.value), err |-> NoError]
    ELSE [amount |-> st.value, err |-> NoError]

\* Parse without its final negation: a slip C7_SignSymmetry tells from
\* ParseReturn.
ParseReturnUnsigned(st) ==
    IF st.err # NoError THEN [amount |-> Lit(0), err |-> st.err]
    ELSE [amount |-> st.value, err |-> NoError]

\* What Parse returns from the locals st the loop leaves.
ParseReturn(st) ==
    IF st.err # NoError THEN [amount |-> Lit(0), err |-> st.err]
    ELSE IF st.negative THEN [amount |-> I64Neg(st.value), err |-> NoError]
    ELSE [amount |-> st.value, err |-> NoError]

Parse(in) == ParseReturn(ParseScan(in))

(***************************************************************************)
(* split, SplitString, Format, String                                      *)
(***************************************************************************)
\* split returning the remainder with its sign, the Abs left out: a slip
\* C4_SplitInvariant tells from splitAt.
splitAtSigned(a, unit, right) ==
    [left |-> I64Quo(I64Sub(a, right), unit), right |-> right]

\* The last three lines of split, right being a % unit.
splitAt(a, unit, right) ==
    [left |-> I64Quo(I64Sub(a, right), unit), right |-> Abs(right)]

split(a, unit) ==
    IF a = Lit(0) THEN [left |-> Lit(0), right |-> Lit(0)]
    ELSE IF unit = Lit(0) THEN [left |-> Lit(0), right |-> Lit(-1)]
    ELSE splitAt(a, unit, I64Rem(a, unit))

\* int(math.Log10(float64(unit))) for a unit 10^k, k <= 18: float64(unit) and
\* the logarithm are exact there, so it is k, the number of zeros.
Log10(unit) == Len(unit.mag) - 1

\* The loop of SplitString run down to the first byte (i >= 0), which empties
\* an all-zero string: a slip C9_SplitStringRendering tells from StripZeros.
StripZerosAll(str) ==
    SubSeq(str, 1, Cardinality({i \in 1..Len(str) :
                                 \E j \in i..Len(str) : SubSeq(str, j, j) # "0"}))

\* The loop of SplitString that drops trailing zeros: i runs from the last
\* byte down to the second and stops at the first byte that is not '0'.
StripZeros(str) ==
    LET stop == {i \in 2..Len(str) : SubSeq(str, i, i) # "0"}
    IN  IF stop = {} THEN SubSeq(str, 1, IF Len(str) > 0 THEN 1 ELSE 0)
        ELSE SubSeq(str, 1, CHOOSE i \in stop : \A j \in stop : j <= i)

\* SplitString after its call of split, which returned s.
SplitStringOf(s, log10) ==
    [leftStr  |-> SprintfD(s.left),
     rightStr |-> StripZeros(SprintfPadD(log10, s.right))]

SplitString(a, unit) == SplitStringOf(split(a, unit), Log10(unit))

\* Format after its call of SplitString, which returned s.
FormatOf(s) ==
    IF s.rightStr = "0" THEN s.leftStr ELSE s.leftStr \o "." \o s.rightStr

Format(a, unit) == FormatOf(SplitString(a, unit))

\* String with the first case alone, every Amount printed in BTC: a slip
\* C10_StringKeepsValue tells from String.
StringBTC(a) == Format(a, BTC) \o " BTC"

String(a) ==
    IF ZLess(BTC, Abs(a)) \/ a = Lit(0) THEN Format(a, BTC) \o " BTC"
    ELSE IF ZLess(MilliBTC, Abs(a)) THEN Format(a, MilliBTC) \o " mBTC"
    ELSE Format(a, Satoshi) \o " sats"

(***************************************************************************)
(* The marshal adapters                                                    *)
(***************************************************************************)
\* MarshalText after its call of SplitString, which returned s.
MarshalTextOf(s) == [text |-> s.leftStr \o "." \o s.rightStr, err |-> NoError]

MarshalText(a) == MarshalTextOf(SplitString(a, BTC))

\* UnmarshalText after its call of Parse, which returned decoded: the receiver
\* after the call, and the error returned.
UnmarshalTextOf(a, decoded) ==
    IF decoded.err # NoError THEN [a |-> a, err |-> decoded.err]
    ELSE [a |-> decoded.amount, err |-> NoError]

UnmarshalText(a, text) == UnmarshalTextOf(a, Parse(text))

\* Leading and trailing JSON white space removed (of it, the inputs hold only
\* the space).
TrimSpace(s) ==
    LET keep == {i \in 1..Len(s) : SubSeq(s, i, i) # " "}
    IN  IF keep = {} THEN ""
        ELSE SubSeq(s, CHOOSE i \in keep : \A j \in keep : i <= j,
                       CHOOSE i \in keep : \A j \in keep : j <= i)

AllDigits(s) == \A i \in 1..Len(s) : IsDigit(SubSeq(s, i, i))

\* json.Unmarshal(in, &f) for a float64 f: whether it returns nil, and f as the
\* sign, the whole digits and the fraction digits of the literal.  A JSON
\* number is -?(0|[1-9][0-9]*)(.[0-9]+)?; null leaves f at 0.  Literals with
\* an exponent are not among the inputs.
JSONFloat(in) ==
    LET t     == TrimSpace(in)
        neg   == Len(t) > 0 /\ SubSeq(t, 1, 1) = "-"
        body  == IF neg THEN SubSeq(t, 2, Len(t)) ELSE t
        dots  == {i \in 1..Len(body) : SubSeq(body, i, i) = "."}
        dot   == IF dots = {} THEN Len(body) + 1
                 ELSE CHOOSE i \in dots : \A j \in dots : i <= j
        whole == SubSeq(body, 1, dot - 1)
        frac  == SubSeq(body, dot + 1, Len(body))
    IN  IF t = "null" THEN [ok |-> TRUE, neg |-> FALSE, whole |-> "0", frac |-> ""]
        ELSE [ok    |-> /\ Len(whole) > 0
                        /\ AllDigits(whole)
                        /\ (Len(whole) > 1 => SubSeq(whole, 1, 1) # "0")
                        /\ (dots # {} => Len(frac) > 0 /\ AllDigits(frac)),
              neg   |-> neg,
              whole |-> whole,
              frac  |-> frac]

\* Sprintf("%.08f", f) for an f read from a literal of at most 8 fraction
\* digits and 15 digits in all, which a float64 holds exactly enough to print
\* the literal's digits.
SprintfF8(f) ==
    (IF f.neg THEN "-" ELSE "") \o f.whole \o "." \o f.frac \o Zeros(8 - Len(f.frac))

\* The branch of UnmarshalJSON taken when UnmarshalText returned an error:
\* r is what UnmarshalText returned, f what json.Unmarshal made of the bytes,
\* asFloat what Parse made of f printed.
UnmarshalJSONFloat(a, r, f, asFloat) ==
    IF f.ok THEN
        IF asFloat.err # NoError THEN [a |-> a, err |-> r.err]
        ELSE [a |-> asFloat.amount, err |-> NoError]
    ELSE [a |-> a, err |-> r.err]

\* UnmarshalJSON after its call of UnmarshalText on the bytes in, which
\* returned r.
UnmarshalJSONOf(a, in, r, f) ==
    IF r.err # NoError THEN UnmarshalJSONFloat(a, r, f, Parse(SprintfF8(f)))
    ELSE [a |-> r.a, err |-> NoError]

\* UnmarshalJSON from its second statement on.
UnmarshalJSONText(a, in) ==
    UnmarshalJSONOf(a, in, UnmarshalText(a, in), JSONFloat(in))

UnmarshalJSON(a, in) ==
    UnmarshalJSONText(a, IF /\ Len(in) > 2
                            /\ SubSeq(in, Len(in), Len(in)) = "\""
                            /\ SubSeq(in, 1, 1) = "\""
                         THEN SubSeq(in, 2, Len(in) - 2)
                         ELSE in)

(***************************************************************************)
(* The inputs.                                                             *)
(***************************************************************************)
\* Every string of at most MaxLen of these characters is an input.
MaxLen == 3

Chars == {"0", "1", "+", "-", ".", ",", " "}

RECURSIVE Strings(_)
Strings(n) ==
    IF n = 0 THEN {""}
    ELSE LET shorter == Strings(n - 1)
         IN  shorter \cup {s \o c : s \in shorter, c \in Chars}

\* Longer inputs: those of the package's tests, and the ends of the int64 range.
LongInputs ==
    {"0.100", "0.12345678", "1.100", "1.12345678", "20.1", "20.100",
     "20.12345678", "0020.1", "020.100", "020.12345678", "300.12345678",
     "0020.0", "0020.00000004", "-20.1", "+20.1", "0020..0", "++0020.0",
     "--0020.0", "0+020.0", "0-020.0", "0.0 BTC", "92233720368.0",
     "-92233720368.0", "2.01", "0.002", "0.00023", "-2.01", "-0.002",
     "-0.00023", "10.0012", "10.12345678", "-1.12345678", "-10.12345678",
     "-0.5", "0,5", "1.5", "-0.00000001", "0.99999999", "1.00000000",
     "92233720368.54775807", "-92233720368.54775807",
     "-92233720368.54775808", "92233720368.54775808",
     "0.123456789", "0.000000009", "-1.0000000099", "2.999999999999"}

Inputs == Strings(MaxLen) \cup LongInputs

Quote(s) == "\"" \o s \o "\""

JSONInputs == Inputs \cup {Quote(s) : s \in Inputs} \cup {"null", "\""}

\* The units 10^0 .. 10^MaxExp.
MaxExp == 12

Pow10(k) == Z(FALSE, <<1>> \o [i \in 1..k |-> 0])

Units == {Pow10(k) : k \in 0..MaxExp}

SplitUnits == Units \cup {Lit(0), Lit(3), Lit(7), Lit(300), I64Mul(Lit(2), BTC), MaxInt64}

\* Amounts written as literals or got by arithmetic.
Literals ==
    LET pos == {Lit(1), Lit(5), Lit(23000), Lit(99999), MilliBTC, Lit(100001),
                Lit(150000), Lit(50000000), Lit(99999999), BTC, Lit(100000001),
                Lit(150000000), Lit(1000120000), Lit(1012345678), AllBTC,
                I64Mul(Z(FALSE, <<9,2,2,3,3,7,2,0,3,6,8>>), BTC)}
    IN  {Lit(0), MaxInt64, MinInt64, I64Add(MinInt64, Lit(1))}
            \cup pos \cup {I64Neg(x) : x \in pos}

(***************************************************************************)
(* Callers of the package.  One takes a literal Amount a, calls one of the *)
(* methods on it and, when the method returned a string, decodes that      *)
(* string into b.  One parses an input into a, formats a at the BTC        *)
(* boundary, the unit Parse reads, and parses that text into b.  One       *)
(* decodes an input into b with UnmarshalText or UnmarshalJSON.            *)
(***************************************************************************)
VARIABLES
    pc,        \* where the caller is: "start", "have", "parsed", "text", "done"
    calls,     \* the functions called so far
    in,        \* the input decoded first, if any
    a,         \* the Amount in hand
    unit,      \* the unit passed to split, SplitString or Format
    left,      \* split: the whole part
    right,     \* split: the remainder
    leftStr,   \* SplitString: the whole part
    rightStr,  \* SplitString: the remainder
    text,      \* the string Format, String or MarshalText returned
    b,         \* the Amount decoded into
    err        \* the error of the last call

vars == <<pc, calls, in, a, unit, left, right, leftStr, rightStr, text, b, err>>

Init ==
    /\ pc = "start"
    /\ calls = <<>>
    /\ in = ""
    /\ a = Lit(0)
    /\ unit = Lit(0)
    /\ left = Lit(0)
    /\ right = Lit(0)
    /\ leftStr = ""
    /\ rightStr = ""
    /\ text = ""
    /\ b = Lit(0)
    /\ err = NoError

\* a := v
Literal(v) ==
    /\ pc = "start"
    /\ a' = v
    /\ pc' = "have"
    /\ UNCHANGED <<calls, in, unit, left, right, leftStr, rightStr, text, b, err>>

\* a, err := Parse(s)
CallParse(s) ==
    /\ pc = "start"
    /\ LET r == Parse(s)
       IN  /\ a' = r.amount
           /\ err' = r.err
           /\ pc' = IF r.err = NoError THEN "parsed" ELSE "done"
    /\ in' = s
    /\ calls' = Append(calls, "Parse")
    /\ UNCHANGED <<unit, left, right, leftStr, rightStr, text, b>>

\* err := b.UnmarshalText(s)
CallUnmarshalText(s) ==
    /\ pc = "start"
    /\ LET r == UnmarshalText(b, s)
       IN  b' = r.a /\ err' = r.err
    /\ in' = s
    /\ calls' = Append(calls, "UnmarshalText")
    /\ pc' = "done"
    /\ UNCHANGED <<a, unit, left, right, leftStr, rightStr, text>>

\* err := b.UnmarshalJSON(s)
CallUnmarshalJSON(s) ==
    /\ pc = "start"
    /\ LET r == UnmarshalJSON(b, s)
       IN  b' = r.a /\ err' = r.err
    /\ in' = s
    /\ calls' = Append(calls, "UnmarshalJSON")
    /\ pc' = "done"
    /\ UNCHANGED <<a, unit, left, right, leftStr, rightStr, text>>

\* left, right := a.split(u)
CallSplit(u) ==
    /\ pc = "have"
    /\ LET s == split(a, u)
       IN  left' = s.left /\ right' = s.right
    /\ unit' = u
    /\ calls' = Append(calls, "split")
    /\ pc' = "done"
    /\ UNCHANGED <<in, a, leftStr, rightStr, text, b, err>>

\* leftStr, rightStr := a.SplitString(u)
CallSplitString(u) ==
    /\ pc = "have"
    /\ LET s == SplitString(a, u)
       IN  leftStr' = s.leftStr /\ rightStr' = s.rightStr
    /\ unit' = u
    /\ calls' = Append(calls, "SplitString")
    /\ pc' = "done"
    /\ UNCHANGED <<in, a, left, right, text, b, err>>

\* text := a.Format(u)
CallFormat(u) ==
    /\ pc = "have" \/ (pc = "parsed" /\ u = BTC)
    /\ text' = Format(a, u)
    /\ unit' = u
    /\ calls' = Append(calls, "Format")
    /\ pc' = "text"
    /\ UNCHANGED <<in, a, left, right, leftStr, rightStr, b, err>>

\* text := a.String()
CallString ==
    /\ pc = "have"
    /\ text' = String(a)
    /\ calls' = Append(calls, "String")
    /\ pc' = "text"
    /\ UNCHANGED <<in, a, unit, left, right, leftStr, rightStr, b, err>>

\* text, err := a.MarshalText()
CallMarshalText ==
    /\ pc = "have"
    /\ LET r == MarshalText(a)
       IN  text' = r.text /\ err' = r.err
    /\ calls' = Append(calls, "MarshalText")
    /\ pc' = "text"
    /\ UNCHANGED <<in, a, unit, left, right, leftStr, rightStr, b>>

\* b, err = Parse(text)
ParseBack ==
    /\ pc = "text"
    /\ LET r == Parse(text)
       IN  b' = r.amount /\ err' = r.err
    /\ calls' = Append(calls, "Parse")
    /\ pc' = "done"
    /\ UNCHANGED <<in, a, unit, left, right, leftStr, rightStr, text>>

\* err = b.UnmarshalText(text)
UnmarshalBack ==
    /\ pc = "text"
    /\ LET r == UnmarshalText(b, text)
       IN  b' = r.a /\ err' = r.err
    /\ calls' = Append(calls, "UnmarshalText")
    /\ pc' = "done"
    /\ UNCHANGED <<in, a, unit, left, right, leftStr, rightStr, text>>

Next ==
    \/ \E v \in Literals : Literal(v)
    \/ \E s \in Inputs : CallParse(s)
    \/ \E s \in Inputs : CallUnmarshalText(s)
    \/ \E s \in JSONInputs : CallUnmarshalJSON(s)
    \/ \E u \in SplitUnits : CallSplit(u)
    \/ \E u \in Units : CallSplitString(u)
    \/ \E u \in Units : CallFormat(u)
    \/ CallString
    \/ CallMarshalText
    \/ ParseBack
    \/ UnmarshalBack

Spec == Init /\ [][Next]_vars

(***************************************************************************)
(* Reading decimal text, for stating the properties.  These definitions    *)
(* read a number off its written digits; they share nothing with Parse or  *)
(* split.                                                                  *)
(***************************************************************************)
CharAt(s, i) == SubSeq(s, i, i)

Least(S) == CHOOSE i \in S : \A j \in S : i <= j

\* The digits a string of digit characters writes.
StrDigits(s) ==
    [i \in 1..Len(s) |-> CHOOSE d \in 0..9 : DigitChar[d + 1] = CharAt(s, i)]

HasSign(s) == Len(s) > 0 /\ CharAt(s, 1) \in {"+", "-"}

\* s without its sign.
Body(s) == IF HasSign(s) THEN SubSeq(s, 2, Len(s)) ELSE s

\* Where the decimal markers of s stand.
Markers(s) == {i \in 1..Len(s) : CharAt(s, i) \in {".", ","}}

\* The text before the first decimal marker of s, and the text after it.
WholeOf(s) == IF Markers(s) = {} THEN s ELSE SubSeq(s, 1, Least(Markers(s)) - 1)

FracOf(s) ==
    IF Markers(s) = {} THEN "" ELSE SubSeq(s, Least(Markers(s)) + 1, Len(s))

\* s is [+|-] D [(.|,) F] with D and F runs of digits, F of at most k.
IsDecimal(s, k) ==
    /\ AllDigits(WholeOf(Body(s)))
    /\ AllDigits(FracOf(Body(s)))
    /\ Len(FracOf(Body(s))) <= k

\* The integer sign * (int(D) * 10^k + int(F right-padded to k digits)): the
\* digits of D followed by those of F and the padding.
Scaled(s, k) ==
    Z(Len(s) > 0 /\ CharAt(s, 1) = "-",
      NStrip(<<0>> \o StrDigits(WholeOf(Body(s))) \o StrDigits(FracOf(Body(s)))
                   \o [i \in 1..(k - Len(FracOf(Body(s)))) |-> 0]))

\* s is [-]digits[.digits] with at most 8 fractional digits and a value that
\* fits in int64.
IsCanonical(s) ==
    /\ IsDecimal(s, 8)
    /\ InInt64(Scaled(s, 8))
    /\ \A i \in 1..Len(s) : CharAt(s, i) \notin {"+", ","}
    /\ Len(WholeOf(Body(s))) > 0
    /\ Markers(s) # {} => Len(FracOf(Body(s))) > 0

(***************************************************************************)
(* C1.  Parse / Format round trip: for every input [-]digits[.digits] with *)
(* at most 8 fractional digits that fits in int64, parsing it, formatting  *)
(* the Amount at the BTC boundary and parsing that text returns no error   *)
(* and the same Amount, for negative inputs below 1 BTC too.               *)
(***************************************************************************)
C1_ParseFormatRoundTrip ==
    (calls = <<"Parse", "Format", "Parse">> /\ unit = BTC /\ IsCanonical(in))
        => (err = NoError /\ b = a)

(***************************************************************************)
(* C2.  Text round trip: for every Amount a, MarshalText returns           *)
(* "<left>.<right>" with exactly one '.', and UnmarshalText of those bytes *)
(* returns nil and sets the receiver to a.                                 *)
(***************************************************************************)
C2_TextRoundTrip ==
    calls = <<"MarshalText", "UnmarshalText">>
        => /\ Cardinality({i \in 1..Len(text) : CharAt(text, i) = "."}) = 1
           /\ err = NoError
           /\ b = a

IsQuoted(s) ==
    Len(s) > 2 /\ CharAt(s, 1) = "\"" /\ CharAt(s, Len(s)) = "\""

Unquoted(s) == SubSeq(s, 2, Len(s) - 1)

(***************************************************************************)
(* C3.  JSON decoding of a quoted string: for every non-empty s that Parse *)
(* accepts, UnmarshalJSON of '"' + s + '"' returns nil and sets the        *)
(* receiver to Parse(s).                                                   *)
(***************************************************************************)
C3_JSONQuoted ==
    (/\ calls = <<"UnmarshalJSON">>
     /\ IsQuoted(in)
     /\ Parse(Unquoted(in)).err = NoError)
        => (err = NoError /\ b = Parse(Unquoted(in)).amount)

(***************************************************************************)
(* C4.  Split invariant: for every Amount a and positive unit u, split(u)  *)
(* returns (left, right) with 0 <= right < u and                           *)
(* left * u + sign(a) * right = a; for a = 0 it returns (0, 0) whatever u  *)
(* is, 0 included.  The sum is taken in the integers, not modulo 2^64.     *)
(***************************************************************************)
C4_SplitInvariant ==
    calls = <<"split">>
        => IF a = Zero THEN left = Zero /\ right = Zero
           ELSE ZLess(Zero, unit)
                    => /\ ~right.neg
                       /\ ZLess(right, unit)
                       /\ ZAdd(ZMul(left, unit), Z(a.neg, right.mag)) = a

C4_Witness ==
    /\ calls = <<"split">>
    /\ a = Lit(-1012345678)
    /\ unit = BTC
    /\ left = Lit(-10)
    /\ right = Lit(12345678)

(***************************************************************************)
(* C5.  Parse value: for every input [+|-] D [(.|,) F] with D and F runs   *)
(* of digits, possibly empty, F of at most 8, whose value fits in int64,   *)
(* Parse returns nil and sign * (int(D) * 100,000,000 + int(F padded with  *)
(* zeros to 8 digits)).                                                    *)
(***************************************************************************)
C5_ParseValue ==
    (calls = <<"Parse">> /\ IsDecimal(in, 8) /\ InInt64(Scaled(in, 8)))
        => (err = NoError /\ a = Scaled(in, 8))

C5_Witness ==
    /\ calls = <<"Parse">>
    /\ in = "-20.1"
    /\ err = NoError
    /\ a = Lit(-2010000000)

Offending(s) ==
    {i \in 1..Len(s) :
        \/ CharAt(s, i) \in {"+", "-"} /\ i > 1
        \/ CharAt(s, i) \in {".", ","} /\ \E j \in Markers(s) : j < i
        \/ ~IsDigit(CharAt(s, i)) /\ CharAt(s, i) \notin {"+", "-", ".", ","}}

ErrorFor(s, i) ==
    IF CharAt(s, i) = "+" THEN ErrStrayPlus
    ELSE IF CharAt(s, i) = "-" THEN ErrStrayMinus
    ELSE IF CharAt(s, i) \in {".", ","} THEN ErrDecimalPoints
    ELSE ErrUnknown(CharAt(s, i), s)

(***************************************************************************)
(* C6.  Parse errors: Parse returns an error exactly when the input holds  *)
(* a '+' or '-' past index 0, a second decimal marker, or a character that *)
(* is none of 0-9 + - . , ; the error is the one for the first such        *)
(* character, and the Amount returned with an error is 0.                  *)
(***************************************************************************)
C6_ParseErrors ==
    calls = <<"Parse">>
        => IF Offending(in) = {} THEN err = NoError
           ELSE err = ErrorFor(in, Least(Offending(in))) /\ a = Zero

C6_Witness ==
    /\ calls = <<"Parse">>
    /\ in = "0+020.0"
    /\ err = ErrStrayPlus
    /\ a = Zero

(***************************************************************************)
(* C7.  Sign symmetry, as stated: for every X that Parse accepts,          *)
(* Parse("-" + X) returns no error and the negation of Parse(X).           *)
(***************************************************************************)
C7_SignSymmetryAsStated ==
    (calls = <<"Parse">> /\ err = NoError)
        => /\ Parse("-" \o in).err = NoError
           /\ Parse("-" \o in).amount = I64Neg(a)

(***************************************************************************)
(* C7, amended.  Sign symmetry for every X that Parse accepts and that     *)
(* does not itself begin with '+' or '-': Parse("-" + X) returns no error  *)
(* and the int64 negation of Parse(X).                                     *)
(***************************************************************************)
C7_SignSymmetry ==
    (calls = <<"Parse">> /\ err = NoError /\ ~HasSign(in))
        => /\ Parse("-" \o in).err = NoError
           /\ Parse("-" \o in).amount = I64Neg(a)

C7_Witness ==
    /\ calls = <<"Parse">>
    /\ in = "20.1"
    /\ err = NoError
    /\ a = Lit(2010000000)
    /\ Parse("-" \o in).amount = Lit(-2010000000)

(***************************************************************************)
(* C8.  String() of exactly 1 BTC is "1 BTC".                              *)
(***************************************************************************)
C8_StringOneBTC == (calls = <<"String">> /\ a = BTC) => text = "1 BTC"

\* The digits of |x| below the last k, and its last k digits.
UpperDigits(x, k) ==
    NStrip(<<0>> \o SubSeq(x.mag, 1, Len(x.mag) - k))

LowerDigits(x, k) ==
    NStrip(<<0>> \o SubSeq(x.mag, IF Len(x.mag) > k THEN Len(x.mag) - k + 1 ELSE 1,
                           Len(x.mag)))

PadLeft(str, k) == Zeros(IF k > Len(str) THEN k - Len(str) ELSE 0) \o str

RECURSIVE TrimZeros(_)
TrimZeros(str) ==
    IF Len(str) > 1 /\ CharAt(str, Len(str)) = "0"
    THEN TrimZeros(SubSeq(str, 1, Len(str) - 1))
    ELSE str

(***************************************************************************)
(* C9.  SplitString rendering: for every Amount a and unit 10^k,           *)
(* 0 <= k <= MaxExp, leftStr is the decimal rendering of the quotient of a *)
(* by the unit truncated toward zero, with '-' only when that quotient is  *)
(* negative; rightStr is |a rem unit| zero-padded on the left to k digits  *)
(* and stripped of trailing zeros while more than one character remains;   *)
(* rightStr is never empty and is "0" exactly when the remainder is 0.     *)
(***************************************************************************)
C9_SplitStringRendering ==
    (calls = <<"SplitString">> /\ unit \in Units)
        => /\ leftStr = (IF a.neg /\ UpperDigits(a, Log10(unit)) # <<0>>
                         THEN "-" ELSE "")
                            \o DigitsStr(UpperDigits(a, Log10(unit)))
           /\ rightStr = TrimZeros(PadLeft(DigitsStr(LowerDigits(a, Log10(unit))),
                                           Log10(unit)))
           /\ rightStr # ""
           /\ rightStr = "0" <=> LowerDigits(a, Log10(unit)) = <<0>>

C9_Witness ==
    /\ calls = <<"SplitString">>
    /\ a = Lit(1000120000)
    /\ unit = BTC
    /\ leftStr = "10"
    /\ rightStr = "0012"

Spaces(s) == {i \in 1..Len(s) : CharAt(s, i) = " "}

\* The number and the suffix of "<number> <suffix>".
NumberOf(s) == SubSeq(s, 1, Least(Spaces(s)) - 1)

SuffixOf(s) == SubSeq(s, Least(Spaces(s)) + 1, Len(s))

SuffixExp(suffix) ==
    IF suffix = "BTC" THEN 8 ELSE IF suffix = "mBTC" THEN 5 ELSE 0

(***************************************************************************)
(* C10.  String() keeps value and sign: for every Amount a of the int64    *)
(* range, the decimal number a.String() prints, times the unit its suffix  *)
(* names (BTC 10^8, mBTC 10^5, sats 1), is a; the text of a negative       *)
(* Amount starts with '-'.                                                 *)
(***************************************************************************)
C10_StringKeepsValue ==
    calls = <<"String">>
        => /\ Spaces(text) # {}
           /\ SuffixOf(text) \in {"BTC", "mBTC", "sats"}
           /\ Len(WholeOf(Body(NumberOf(text)))) > 0
           /\ CharAt(text, 1) # "+"
           /\ "," \notin {CharAt(text, i) : i \in 1..Len(text)}
           /\ IsDecimal(NumberOf(text), SuffixExp(SuffixOf(text)))
           /\ Scaled(NumberOf(text), SuffixExp(SuffixOf(text))) = a
           /\ a.neg => CharAt(text, 1) = "-"

C10_Witness ==
    /\ calls = <<"String">>
    /\ a = Lit(-50000000)
    /\ text = "-500 mBTC"

\* s cut off after the 8th character that follows its first decimal marker.
CutAfter8(s) == SubSeq(s, 1, Least(Markers(s)) + 8)

(***************************************************************************)
(* C11.  Fractional digits past the 8th are ignored: for every input Parse *)
(* accepts whose fractional part has more than 8 digits, Parse returns nil *)
(* and exactly the Amount it returns for the input cut off after the 8th   *)
(* fractional digit.                                                       *)
(***************************************************************************)
C11_ExtraDigitsIgnored ==
    (calls = <<"Parse">> /\ err = NoError /\ Len(FracOf(in)) > 8)
        => /\ Parse(CutAfter8(in)).err = NoError
           /\ a = Parse(CutAfter8(in)).amount

C11_Witness ==
    /\ calls = <<"Parse">>
    /\ in = "0.123456789"
    /\ err = NoError
    /\ CutAfter8(in) = "0.12345678"
    /\ a = Lit(12345678)

====
